---- MODULE Spec2Model ----
(***************************************************************************)
(* Model of the amazon-autopilot dashboard front end: the page views       *)
(* Dashboard, Products, Research, Monitoring and Blacklist, the REST       *)
(* requests they have in flight, the backend collections those requests    *)
(* read and change, and the apiRequest function of the API client.         *)
(*                                                                         *)
(* A JavaScript string is a sequence of one-character strings.  A run of   *)
(* Japanese characters of a label is written as one bracketed token such   *)
(* as "[shohinmei]": none of its characters is a quote, a comma or white   *)
(* space, so every operation below treats the run like one ordinary        *)
(* character.                                                              *)
(***************************************************************************)
EXTENDS Integers, Sequences, FiniteSets, TLC

VARIABLES
    page,             \* the route whose view is mounted
    mounted,          \* the view's mount effect has run
    loading,          \* the mounted view's loading flag
    reqs,             \* requests of the mounted view not yet settled at the client, in issue order
    toast,            \* the variant of the toast the last step showed, or "none"
    unrefreshed,      \* the backend applied a mutation and the view has issued no GET since
    db,               \* backend: listing id -> "absent" | "active" | "paused"
    listings,         \* Products: the loaded listings
    searchTerm,       \* Products
    processingIds,    \* Products
    addDialogOpen,    \* Products
    creating,         \* Products
    formData,         \* Products: the required fields of the add form
    formErrors,       \* Products
    importing,        \* Products
    csvText,          \* Products: the text of the file handleExport downloaded
    records,          \* Products: what parseImportedData returned for the chosen file
    dbBlacklist,      \* backend: blacklist entry id -> "absent" | entry type
    blacklist,        \* Blacklist: the loaded groups, or Null
    newAsin,          \* Blacklist
    newBrand,         \* Blacklist
    newKeyword,       \* Blacklist
    processingAction, \* Blacklist
    deletingId,       \* Blacklist
    dbMonitor,        \* backend: the time of the last check-all run, "never" if none
    monitorStatus,    \* Monitoring: the loaded status, or Null
    checking,         \* Monitoring
    checkInterval,    \* Monitoring: content of the uncontrolled check-interval input
    asin,             \* Research
    results,          \* Research
    error,            \* Research
    stats,            \* Dashboard
    response,         \* api.ts: the HTTP response fetch resolved with, or Null
    promise           \* api.ts: what the promise of apiRequest settled with, or Null

vars == <<page, mounted, loading, reqs, toast, unrefreshed, db, listings, searchTerm, processingIds,
          addDialogOpen, creating, formData, formErrors, importing, csvText, records,
          dbBlacklist, blacklist, newAsin, newBrand, newKeyword, processingAction,
          deletingId, dbMonitor, monitorStatus, checking, checkInterval,
          asin, results, error, stats, response, promise>>

----------------------------------------------------------------------------
(* Bounds *)

\* most requests one view has in flight at a time
MaxInFlight == 2

\* longest title drawn for the CSV round trip
MaxTitleLen == 3

----------------------------------------------------------------------------
(* Strings *)

\* null or undefined is the empty sequence, a value v that may be null is <<v>>
Null == <<>>
Some(v) == <<v>>

QUOTE == "\""
COMMA == ","
SPACE == " "
LF == "LF"
BOM == "BOM"

\* JavaScript WhiteSpace and LineTerminator, as far as the model's alphabet has them
IsSpace(c) == c \in {SPACE, LF, BOM}

RECURSIVE TrimStart(_)
TrimStart(s) ==
    IF s # <<>> /\ IsSpace(Head(s)) THEN TrimStart(Tail(s)) ELSE s

RECURSIVE TrimEnd(_)
TrimEnd(s) ==
    IF s # <<>> /\ IsSpace(s[Len(s)]) THEN TrimEnd(SubSeq(s, 1, Len(s) - 1)) ELSE s

\* String.prototype.trim
Trim(s) == TrimEnd(TrimStart(s))

LowerOf(c) ==
    CASE c = "A" -> "a" [] c = "B" -> "b" [] c = "T" -> "t" [] c = "X" -> "x"
      [] c = "Z" -> "z" [] OTHER -> c

UpperOf(c) ==
    CASE c = "a" -> "A" [] c = "b" -> "B" [] c = "t" -> "T" [] c = "x" -> "X"
      [] c = "z" -> "Z" [] OTHER -> c

\* String.prototype.toLowerCase / toUpperCase on the model's alphabet
ToLowerCase(s) == [i \in 1..Len(s) |-> LowerOf(s[i])]
ToUpperCase(s) == [i \in 1..Len(s) |-> UpperOf(s[i])]

\* String.prototype.includes
Includes(s, t) ==
    \E i \in 1..(Len(s) - Len(t) + 1) : SubSeq(s, i, i + Len(t) - 1) = t

RECURSIVE Join(_, _)
\* Array.prototype.join
Join(parts, sep) ==
    IF parts = <<>> THEN <<>>
    ELSE IF Len(parts) = 1 THEN parts[1]
    ELSE parts[1] \o sep \o Join(Tail(parts), sep)

RECURSIVE Split(_, _)
\* String.prototype.split on a set of one-character separators
Split(s, seps) ==
    IF \A i \in 1..Len(s) : s[i] \notin seps THEN <<s>>
    ELSE LET k == CHOOSE i \in 1..Len(s) :
                      s[i] \in seps /\ \A j \in 1..(i - 1) : s[j] \notin seps
         IN  <<SubSeq(s, 1, k - 1)>> \o Split(SubSeq(s, k + 1, Len(s)), seps)

Digit(d) == CASE d = 0 -> "0" [] d = 1 -> "1" [] d = 2 -> "2" [] d = 3 -> "3"
              [] d = 4 -> "4" [] d = 5 -> "5" [] d = 6 -> "6" [] d = 7 -> "7"
              [] d = 8 -> "8" [] OTHER -> "9"

RECURSIVE NumberToString(_)
\* String(n) for a natural number
NumberToString(n) ==
    IF n < 10 THEN <<Digit(n)>> ELSE NumberToString(n \div 10) \o <<Digit(n % 10)>>

----------------------------------------------------------------------------
(* Products: CSV export and import (pure functions) *)

K_asin == <<"a", "s", "i", "n">>
K_title == <<"t", "i", "t", "l", "e">>
K_listing_price == <<"l", "i", "s", "t", "i", "n", "g", "_", "p", "r", "i", "c", "e">>
K_profit == <<"p", "r", "o", "f", "i", "t">>
K_status == <<"s", "t", "a", "t", "u", "s">>
K_stock_status == <<"s", "t", "o", "c", "k", "_", "s", "t", "a", "t", "u", "s">>
K_jp_price == <<"j", "p", "_", "p", "r", "i", "c", "e">>
K_us_price == <<"u", "s", "_", "p", "r", "i", "c", "e">>

JPY == <<SPACE, "(", "J", "P", "Y", ")">>
USD == <<SPACE, "(", "U", "S", "D", ")">>

\* the key and the label of each exported column
exportColumns ==
    << [key |-> K_asin,          label |-> <<"A", "S", "I", "N">>],
       [key |-> K_title,         label |-> <<"[shohinmei]">>],
       [key |-> K_listing_price, label |-> <<"[shuppinkakaku]">> \o JPY],
       [key |-> K_profit,        label |-> <<"[rieki]">> \o JPY],
       [key |-> K_status,        label |-> <<"[sutetasu]">>],
       [key |-> K_stock_status,  label |-> <<"[zaiko-sutetasu]">>],
       [key |-> K_jp_price,      label |-> <<"[shiirekakaku]">> \o JPY],
       [key |-> K_us_price,      label |-> <<"[shiirekakaku]">> \o USD] >>

StatusText(st) ==
    IF st = "active" THEN <<"a", "c", "t", "i", "v", "e">>
    ELSE <<"p", "a", "u", "s", "e", "d">>

StockText(st) ==
    IF st = "in_stock" THEN <<"i", "n", "_", "s", "t", "o", "c", "k">>
    ELSE <<"o", "u", "t", "_", "o", "f", "_", "s", "t", "o", "c", "k">>

\* String(listing[key] ?? ""): profit, stock_status, jp_price and us_price are
\* optional and hold <<>> (undefined) or <<value>>
ColumnText(listing, key) ==
    CASE key = K_asin -> listing.asin
      [] key = K_title -> listing.title
      [] key = K_listing_price -> NumberToString(listing.listing_price)
      [] key = K_status -> StatusText(listing.status)
      [] key = K_profit ->
            IF listing.profit = <<>> THEN <<>> ELSE NumberToString(listing.profit[1])
      [] key = K_jp_price ->
            IF listing.jp_price = <<>> THEN <<>> ELSE NumberToString(listing.jp_price[1])
      [] key = K_us_price ->
            IF listing.us_price = <<>> THEN <<>> ELSE NumberToString(listing.us_price[1])
      [] OTHER -> IF listing.stock_status = <<>> THEN <<>> ELSE StockText(listing.stock_status[1])

RECURSIVE DoubleQuotes(_)
\* stringValue.replace(/"/g, '""')
DoubleQuotes(s) ==
    IF s = <<>> THEN <<>>
    ELSE (IF Head(s) = QUOTE THEN <<QUOTE, QUOTE>> ELSE <<Head(s)>>) \o DoubleQuotes(Tail(s))

escapeCsv(value) == <<QUOTE>> \o DoubleQuotes(value) \o <<QUOTE>>

ExportRow(listing) ==
    Join([c \in 1..Len(exportColumns) |-> escapeCsv(ColumnText(listing, exportColumns[c].key))],
         <<COMMA>>)

\* the text handleExport puts in the downloaded file
ExportCsv(ls) ==
    LET header == [c \in 1..Len(exportColumns) |-> exportColumns[c].label]
        rows == [i \in 1..Len(ls) |-> ExportRow(ls[i])]
    IN  <<BOM>> \o Join(<<Join(header, <<COMMA>>)>> \o rows, <<LF>>)

\* header text -> record key; a header that is not listed keeps its own text
headerMappings(cleaned) ==
    CASE cleaned \in {K_asin, <<"A", "S", "I", "N">>} -> K_asin
      [] cleaned \in {K_title, <<"[shohinmei]">>} -> K_title
      [] cleaned \in {K_listing_price,
                      <<"l", "i", "s", "t", "i", "n", "g", "_", "p", "r", "i">>,
                      K_listing_price \o JPY,
                      <<"[shuppinkakaku]">>, <<"[shuppinkakaku]">> \o JPY} -> K_listing_price
      [] cleaned \in {K_profit, <<"[rieki]">>} -> K_profit
      [] cleaned \in {K_status, <<"[sutetasu]">>} -> K_status
      [] cleaned \in {K_stock_status,
                      <<"s", "t", "o", "c", "k", "_", "s", "t", "a", "t">>,
                      <<"[zaiko-sutetasu]">>} -> K_stock_status
      [] cleaned \in {K_jp_price, <<"[shiirekakaku]">> \o JPY} -> K_jp_price
      [] cleaned \in {K_us_price, <<"[shiirekakaku]">> \o USD} -> K_us_price
      [] OTHER -> cleaned

\* value.replace(/^"|"$/g, "")
StripQuotes(v) ==
    LET a == IF v # <<>> /\ Head(v) = QUOTE THEN Tail(v) ELSE v
    IN  IF a # <<>> /\ a[Len(a)] = QUOTE
        THEN SubSeq(a, 1, Len(a) - 1) ELSE a

RECURSIVE Unescape(_)
\* value.replace(/""/g, '"')
Unescape(v) ==
    IF Len(v) < 2 THEN v
    ELSE IF v[1] = QUOTE /\ v[2] = QUOTE THEN <<QUOTE>> \o Unescape(SubSeq(v, 3, Len(v)))
    ELSE <<v[1]>> \o Unescape(Tail(v))

\* the lookahead (?=\s*,|\s*$) at position k of the line
Lookahead(s, k) ==
    LET rest == TrimStart(SubSeq(s, k, Len(s)))
    IN  rest = <<>> \/ Head(rest) = COMMA

\* where a match of (".*?"|[^",\s]+)(?=\s*,|\s*$) that starts at p ends; 0 if none starts there
MatchEnd(s, p) ==
    IF s[p] = QUOTE
    THEN LET ends == {q \in (p + 1)..Len(s) : s[q] = QUOTE /\ Lookahead(s, q + 1)}
         IN  IF ends = {} THEN 0 ELSE CHOOSE q \in ends : \A r \in ends : q <= r
    ELSE IF s[p] = COMMA \/ IsSpace(s[p]) THEN 0
    ELSE LET r == CHOOSE e \in p..Len(s) :
                      /\ \A j \in p..e : s[j] \notin {QUOTE, COMMA} /\ ~IsSpace(s[j])
                      /\ (e = Len(s) \/ s[e + 1] \in {QUOTE, COMMA} \/ IsSpace(s[e + 1]))
         IN  IF Lookahead(s, r + 1) THEN r ELSE 0

RECURSIVE MatchAll(_, _)
\* line.match(/(".*?"|[^",\s]+)(?=\s*,|\s*$)/g) ?? [], scanning from position p
MatchAll(s, p) ==
    IF p > Len(s) THEN <<>>
    ELSE LET q == MatchEnd(s, p)
         IN  IF q = 0 THEN MatchAll(s, p + 1)
             ELSE <<SubSeq(s, p, q)>> \o MatchAll(s, q + 1)

RowValues(line) ==
    LET m == MatchAll(line, 1)
    IN  [i \in 1..Len(m) |-> Trim(Unescape(StripQuotes(m[i])))]

\* JSON.parse(text) succeeds; every text of the model starts a CSV header, which is no JSON
IsJson(text) == Head(text) \in {"[", "{"}

\* parseImportedData: the records of a CSV text, each a function header -> value
parseImportedData(text0) ==
    LET text == Trim(text0)
        lines == SelectSeq(Split(text, {LF}), LAMBDA l : Trim(l) # <<>>)
        cells == Split(lines[1], {COMMA})
        headers == [i \in 1..Len(cells) |-> headerMappings(Trim(StripQuotes(cells[i])))]
        rows == SelectSeq([i \in 1..(Len(lines) - 1) |-> RowValues(lines[i + 1])],
                          LAMBDA v : Len(v) > 0)
        Rec(values) ==
            [h \in {headers[i] : i \in 1..Len(headers)} |->
                LET last == CHOOSE i \in 1..Len(headers) :
                                headers[i] = h /\ \A j \in (i + 1)..Len(headers) : headers[j] # h
                IN  IF last <= Len(values) THEN values[last] ELSE <<>>]
    IN  IF text = <<>> \/ IsJson(text) \/ lines = <<>> THEN <<>>
        ELSE [i \in 1..Len(rows) |-> Rec(rows[i])]

----------------------------------------------------------------------------
(* Requests and the backend *)

Pages == {"dashboard", "products", "research", "monitoring", "blacklist"}

ListingIds == {"L1", "L2"}
Statuses == {"active", "paused"}

\* what the backend holds for each listing id when it exists
Catalog(id) ==
    IF id = "L1"
    THEN [asin |-> <<"B", "1">>, title |-> <<"T", "a", "b">>, listing_price |-> 98,
          profit_amount |-> <<30>>, stock_status |-> <<"in_stock">>,
          jp_price |-> <<60>>, us_price |-> <<>>]
    ELSE [asin |-> <<"B", "2">>, title |-> <<"B", "o", "x">>, listing_price |-> 5,
          profit_amount |-> <<>>, stock_status |-> <<"out_of_stock">>,
          jp_price |-> <<>>, us_price |-> <<4>>]

\* the ids of a set in the backend's order
RECURSIVE InOrder(_)
InOrder(ids) ==
    IF ids = {} THEN <<>>
    ELSE LET first == IF "L1" \in ids THEN "L1" ELSE CHOOSE x \in ids : TRUE
         IN  <<first>> \o InOrder(ids \ {first})

\* the body of GET /listings for a backend state
ListingsBody(d) ==
    LET ids == InOrder({id \in ListingIds : d[id] # "absent"})
    IN  [i \in 1..Len(ids) |->
            [listing_id |-> ids[i], asin |-> Catalog(ids[i]).asin,
             title |-> Catalog(ids[i]).title,
             listing_price |-> Catalog(ids[i]).listing_price,
             profit_amount |-> Catalog(ids[i]).profit_amount,
             status |-> d[ids[i]], stock_status |-> Catalog(ids[i]).stock_status,
             jp_price |-> Catalog(ids[i]).jp_price, us_price |-> Catalog(ids[i]).us_price]]

\* a request as apiRequest sends it: the awaiting handler, the endpoint and its argument;
\* superseded is history, not program state: the view already shows the response of
\* a listings fetch that was issued after this one
Request(by, api, arg) ==
    [by |-> by, api |-> api, arg |-> arg, st |-> "sent", data |-> <<>>, superseded |-> FALSE]

Remove(s, i) == SubSeq(s, 1, i - 1) \o SubSeq(s, i + 1, Len(s))

Room(n) == Len(reqs) + n <= MaxInFlight

\* apiRequest: the promise resolves with the body when the response is OK, with
\* success true ("ok") or not ("nosuccess"), and rejects otherwise ("rejected")
Outcomes == {"ok", "nosuccess", "rejected"}

----------------------------------------------------------------------------
(* api.ts: apiRequest *)

\* what response.json() finds in the body: text that is no JSON (an empty body, an
\* HTML error page), the JSON null, or an object whose error and errors fields may
\* be absent (Null)
Bodies ==
    {[kind |-> k, error |-> Null, errors |-> Null] : k \in {"text", "null"}}
    \cup {[kind |-> "object", error |-> e, errors |-> es] :
             e \in {Null, Some(<<>>), Some(<<"e">>)},
             es \in {Null, Some(<<>>), Some(<<<<"a">>>>), Some(<<<<"a">>, <<"b">>>>)}}

\* the responses fetch may resolve with; a 204 carries no body
Responses ==
    {r \in [status : {200, 204, 400, 502}, body : Bodies] :
        r.status = 204 => r.body.kind = "text"}

\* response.ok
ResponseOk(r) == r.status >= 200 /\ r.status <= 299

\* data.error || (Array.isArray(data.errors) ? data.errors.join(', ') : undefined)
\*            || `HTTP error! status: ${response.status}`
ApiErrorMessage(r) ==
    LET truthy(v) == v # Null /\ v[1] # <<>>
        joined == IF r.body.errors # Null
                  THEN Some(Join(r.body.errors[1], <<COMMA, SPACE>>)) ELSE Null
    IN  IF truthy(r.body.error) THEN r.body.error[1]
        ELSE IF truthy(joined) THEN joined[1]
        ELSE <<"[HTTP error! status: ]">> \o NumberToString(r.status)

\* what the promise of apiRequest settles with once fetch has resolved with r: the
\* body is parsed before response.ok is looked at, and whatever the try block throws
\* is thrown again
apiRequest(r) ==
    LET rejected(name, message, status, details) ==
            [state |-> "rejected", value |-> Null, name |-> name, message |-> message,
             status |-> status, details |-> details]
    IN  IF r.body.kind = "text"
        THEN rejected("SyntaxError", <<"[Unexpected token]">>, Null, Null)
        ELSE IF ResponseOk(r)
        THEN [state |-> "resolved", value |-> Some(r.body), name |-> "", message |-> <<>>,
              status |-> Null, details |-> Null]
        ELSE IF r.body.kind = "null"
        THEN rejected("TypeError", <<"[Cannot read properties of null]">>, Null, Null)
        ELSE rejected("ApiError", ApiErrorMessage(r), Some(r.status), Some(r.body))

\* apiRequest up to the end of its first await: fetch resolves with a response
FetchResolves(r) ==
    /\ response = Null
    /\ response' = Some(r)
    /\ UNCHANGED <<page, mounted, loading, reqs, toast, unrefreshed, db, listings, searchTerm,
                   processingIds, addDialogOpen, creating, formData, formErrors, importing,
                   csvText, records, dbBlacklist, blacklist, newAsin, newBrand, newKeyword,
                   processingAction, deletingId, dbMonitor, monitorStatus, checking,
                   checkInterval, asin, results, error, stats, promise>>

\* apiRequest after the response has arrived
ApiRequestSettles ==
    /\ response # Null /\ promise = Null
    /\ promise' = Some(apiRequest(response[1]))
    /\ UNCHANGED <<page, mounted, loading, reqs, toast, unrefreshed, db, listings, searchTerm,
                   processingIds, addDialogOpen, creating, formData, formErrors, importing,
                   csvText, records, dbBlacklist, blacklist, newAsin, newBrand, newKeyword,
                   processingAction, deletingId, dbMonitor, monitorStatus, checking,
                   checkInterval, asin, results, error, stats, response>>

----------------------------------------------------------------------------
(* Products *)

FieldValues == {<<>>, <<SPACE>>, <<"B", "1">>}
SearchTerms == {<<>>, <<"t">>}
RequiredFields == {"asin", "title", "listing_price"}

emptyFormState == [asin |-> <<>>, title |-> <<>>, listing_price |-> <<>>]

\* response.listings.map(...) of loadListings
Normalize(body) ==
    [i \in 1..Len(body) |->
        [id |-> body[i].listing_id, asin |-> body[i].asin, title |-> body[i].title,
         listing_price |-> body[i].listing_price, profit |-> body[i].profit_amount,
         status |-> body[i].status, stock_status |-> body[i].stock_status,
         jp_price |-> body[i].jp_price, us_price |-> body[i].us_price]]

filteredListings ==
    SelectSeq(listings, LAMBDA l :
        \/ searchTerm = <<>>
        \/ Includes(ToLowerCase(l.asin), ToLowerCase(searchTerm))
        \/ Includes(ToLowerCase(l.title), ToLowerCase(searchTerm)))

\* the table body shows the rows (not the spinner, not the 'not found' row)
RowShown(l) == ~loading /\ \E i \in 1..Len(filteredListings) : filteredListings[i] = l

\* the block under the table: 'no products registered yet' and 'add first product'
EmptyStateShown == ~loading /\ Len(filteredListings) = 0

ProductsUnchanged ==
    UNCHANGED <<listings, searchTerm, processingIds, addDialogOpen, creating, formData,
                formErrors, importing, csvText, records>>
OthersUnchanged ==
    UNCHANGED <<dbBlacklist, blacklist, newAsin, newBrand, newKeyword, processingAction,
                deletingId, dbMonitor, monitorStatus, checking, checkInterval,
                asin, results, error, stats, response, promise>>

\* loadListings up to its await: setLoading(true) and GET /listings
LoadListingsStart(rest) ==
    /\ loading' = TRUE
    /\ reqs' = Append(rest, Request("loadListings", "listings.getAll", <<>>))
    /\ unrefreshed' = FALSE

ProductsMount ==
    /\ page = "products" /\ ~mounted
    /\ mounted' = TRUE
    /\ LoadListingsStart(reqs)
    /\ toast' = "none"
    /\ UNCHANGED <<page, db>> /\ ProductsUnchanged /\ OthersUnchanged

\* the search button: onClick={() => loadListings()}
SearchClick ==
    /\ page = "products" /\ mounted /\ Room(1)
    /\ LoadListingsStart(reqs)
    /\ toast' = "none"
    /\ UNCHANGED <<page, mounted, db>> /\ ProductsUnchanged /\ OthersUnchanged

SetSearchTerm(t) ==
    /\ page = "products" /\ mounted /\ t # searchTerm
    /\ searchTerm' = t
    /\ toast' = "none"
    /\ UNCHANGED <<page, mounted, loading, reqs, unrefreshed, db, listings, processingIds, addDialogOpen,
                   creating, formData, formErrors, importing, csvText, records>>
    /\ OthersUnchanged

\* loadListings after its await
LoadListingsDone(i) ==
    /\ page = "products" /\ i \in 1..Len(reqs)
    /\ reqs[i].by = "loadListings" /\ reqs[i].st # "sent"
    /\ listings' = IF reqs[i].st = "ok" THEN Normalize(reqs[i].data) ELSE listings
    /\ loading' = FALSE
    /\ reqs' = Remove([k \in 1..Len(reqs) |->
                          IF reqs[i].st = "ok" /\ k < i /\ reqs[k].by = "loadListings"
                          THEN [reqs[k] EXCEPT !.superseded = TRUE] ELSE reqs[k]], i)
    /\ toast' = IF reqs[i].st = "rejected" THEN "destructive" ELSE "none"
    /\ UNCHANGED <<page, mounted, unrefreshed, db, searchTerm, processingIds, addDialogOpen, creating,
                   formData, formErrors, importing, csvText, records>>
    /\ OthersUnchanged

\* a slip: the toggle always pauses
NewStatus_AlwaysPaused(listing) == "paused"

NewStatus(listing) == IF listing.status = "active" THEN "paused" ELSE "active"

\* handleToggleStatus up to its await
handleToggleStatus(listing) ==
    /\ page = "products" /\ RowShown(listing) /\ listing.id \notin processingIds /\ Room(1)
    /\ processingIds' = processingIds \cup {listing.id}
    /\ reqs' = Append(reqs, Request("handleToggleStatus", "listings.update",
                                    <<listing.id, NewStatus(listing)>>))
    /\ toast' = "none"
    /\ UNCHANGED <<page, mounted, loading, unrefreshed, db, listings, searchTerm, addDialogOpen, creating,
                   formData, formErrors, importing, csvText, records>>
    /\ OthersUnchanged

\* handleDelete up to its await; confirm() may be declined
handleDelete(listingId, confirmed) ==
    /\ page = "products" /\ listingId \notin processingIds
    /\ \E i \in 1..Len(listings) : listings[i].id = listingId /\ RowShown(listings[i])
    /\ IF confirmed
       THEN /\ Room(1)
            /\ processingIds' = processingIds \cup {listingId}
            /\ reqs' = Append(reqs, Request("handleDelete", "listings.delete", <<listingId>>))
            /\ toast' = "none"
       ELSE /\ UNCHANGED <<processingIds, reqs>>
            /\ toast' = "none"
    /\ UNCHANGED <<page, mounted, loading, unrefreshed, db, listings, searchTerm, addDialogOpen, creating,
                   formData, formErrors, importing, csvText, records>>
    /\ OthersUnchanged

\* a slip: finally resets processingIds to an empty set
RowActionDone_ClearsAll(i) ==
    /\ page = "products" /\ i \in 1..Len(reqs)
    /\ reqs[i].by \in {"handleToggleStatus", "handleDelete"} /\ reqs[i].st # "sent"
    /\ IF reqs[i].st = "rejected"
       THEN /\ reqs' = Remove(reqs, i)
            /\ UNCHANGED <<loading, unrefreshed>>
            /\ toast' = "destructive"
       ELSE /\ LoadListingsStart(Remove(reqs, i))
            /\ toast' = "default"
    /\ processingIds' = {}
    /\ UNCHANGED <<page, mounted, db, listings, searchTerm, addDialogOpen, creating,
                   formData, formErrors, importing, csvText, records>>
    /\ OthersUnchanged

\* handleToggleStatus and handleDelete after their await: the response is not inspected
RowActionDone(i) ==
    /\ page = "products" /\ i \in 1..Len(reqs)
    /\ reqs[i].by \in {"handleToggleStatus", "handleDelete"} /\ reqs[i].st # "sent"
    /\ IF reqs[i].st = "rejected"
       THEN /\ reqs' = Remove(reqs, i)
            /\ UNCHANGED <<loading, unrefreshed>>
            /\ toast' = "destructive"
       ELSE /\ LoadListingsStart(Remove(reqs, i))
            /\ toast' = "default"
    /\ processingIds' = processingIds \ {reqs[i].arg[1]}
    /\ UNCHANGED <<page, mounted, db, listings, searchTerm, addDialogOpen, creating,
                   formData, formErrors, importing, csvText, records>>
    /\ OthersUnchanged

\* the two 'add product' buttons: setAddDialogOpen(true)
OpenAddDialog ==
    /\ page = "products" /\ mounted /\ ~addDialogOpen
    /\ addDialogOpen' = TRUE
    /\ toast' = "none"
    /\ UNCHANGED <<page, mounted, loading, reqs, unrefreshed, db, listings, searchTerm, processingIds,
                   creating, formData, formErrors, importing, csvText, records>>
    /\ OthersUnchanged

\* the dialog's onOpenChange(false): closes and resets the form
DismissAddDialog ==
    /\ page = "products" /\ addDialogOpen
    /\ addDialogOpen' = FALSE
    /\ formData' = emptyFormState
    /\ formErrors' = {}
    /\ toast' = "none"
    /\ UNCHANGED <<page, mounted, loading, reqs, unrefreshed, db, listings, searchTerm, processingIds,
                   creating, importing, csvText, records>>
    /\ OthersUnchanged

\* the cancel button: setAddDialogOpen(false), disabled while creating
CancelAddDialog ==
    /\ page = "products" /\ addDialogOpen /\ ~creating
    /\ addDialogOpen' = FALSE
    /\ toast' = "none"
    /\ UNCHANGED <<page, mounted, loading, reqs, unrefreshed, db, listings, searchTerm, processingIds,
                   creating, formData, formErrors, importing, csvText, records>>
    /\ OthersUnchanged

handleInputChange(field, value) ==
    /\ page = "products" /\ addDialogOpen /\ formData[field] # value
    /\ formData' = [formData EXCEPT ![field] = value]
    /\ formErrors' = formErrors \ {field}
    /\ toast' = "none"
    /\ UNCHANGED <<page, mounted, loading, reqs, unrefreshed, db, listings, searchTerm, processingIds,
                   addDialogOpen, creating, importing, csvText, records>>
    /\ OthersUnchanged

\* a slip: the fields are tested without trim()
validateForm_NoTrim == {f \in RequiredFields : formData[f] = <<>>}

\* the fields validateForm reports
validateForm == {f \in RequiredFields : Trim(formData[f]) = <<>>}

\* handleCreateListing up to its await; the submit button is disabled while creating
handleCreateListing ==
    /\ page = "products" /\ addDialogOpen /\ ~creating
    /\ IF validateForm # {}
       THEN /\ formErrors' = validateForm
            /\ toast' = "none"
            /\ UNCHANGED <<creating, reqs>>
       ELSE /\ Room(1)
            /\ creating' = TRUE
            /\ reqs' = Append(reqs, Request("handleCreateListing", "listings.create",
                                            <<Trim(formData.asin), Trim(formData.title)>>))
            /\ toast' = "none"
            /\ UNCHANGED formErrors
    /\ UNCHANGED <<page, mounted, loading, unrefreshed, db, listings, searchTerm, processingIds,
                   addDialogOpen, formData, importing, csvText, records>>
    /\ OthersUnchanged

\* handleCreateListing after its await
CreateListingDone(i) ==
    /\ page = "products" /\ i \in 1..Len(reqs)
    /\ reqs[i].by = "handleCreateListing" /\ reqs[i].st # "sent"
    /\ IF reqs[i].st = "ok"
       THEN /\ addDialogOpen' = FALSE
            /\ formData' = emptyFormState
            /\ formErrors' = {}
            /\ LoadListingsStart(Remove(reqs, i))
            /\ toast' = "default"
       ELSE /\ reqs' = Remove(reqs, i)
            /\ toast' = "destructive"
            /\ UNCHANGED <<addDialogOpen, formData, formErrors, loading, unrefreshed>>
    /\ creating' = FALSE
    /\ UNCHANGED <<page, mounted, db, listings, searchTerm, processingIds, importing,
                   csvText, records>>
    /\ OthersUnchanged

\* the files the operator may choose to import
HeaderLine == K_asin \o <<COMMA>> \o K_title \o <<COMMA>> \o K_listing_price
RowA == <<"B", "1", COMMA, "T", "a", "b", COMMA, "9", "8">>
RowB == <<"B", "2", COMMA, COMMA, "5">>
RowC == <<"B", "2", COMMA, "B", "o", "x", COMMA, "5">>
ImportFiles ==
    { <<>>,
      HeaderLine,
      HeaderLine \o <<LF>> \o RowB,
      HeaderLine \o <<LF>> \o RowA,
      HeaderLine \o <<LF>> \o RowA \o <<LF>> \o RowC }

\* record.<key>, undefined (<<>> here, like the empty string: both are falsy) when absent
Field(record, key) == IF key \in DOMAIN record THEN record[key] ELSE <<>>

\* createPayload(record) is not null
HasPayload(record) ==
    /\ Trim(Field(record, K_asin)) # <<>>
    /\ Trim(Field(record, K_title)) # <<>>
    /\ Field(record, K_listing_price) # <<>>

\* handleImportFile up to Promise.allSettled; readable: file.text() resolves
handleImportFile(file, readable) ==
    /\ page = "products" /\ mounted /\ ~importing
    /\ LET recs == IF readable THEN parseImportedData(file) ELSE <<>>
           payloads == SelectSeq(recs, HasPayload)
       IN  IF ~readable
           THEN /\ toast' = "destructive"
                /\ UNCHANGED <<importing, reqs>>
           ELSE IF Len(payloads) = 0
           THEN /\ toast' = "default"
                /\ UNCHANGED <<importing, reqs>>
           ELSE /\ Room(Len(payloads))
                /\ importing' = TRUE
                /\ reqs' = reqs \o [k \in 1..Len(payloads) |->
                                       Request("handleImportFile", "listings.create",
                                               <<Trim(payloads[k][K_asin]),
                                                 Trim(payloads[k][K_title])>>)]
                /\ toast' = "none"
    /\ records' = IF readable THEN parseImportedData(file) ELSE records
    /\ UNCHANGED <<page, mounted, loading, unrefreshed, db, listings, searchTerm, processingIds,
                   addDialogOpen, creating, formData, formErrors, csvText>>
    /\ OthersUnchanged

\* handleExport: the downloaded text is kept in csvText; nothing is awaited, and the
\* button is disabled while loading
handleExport ==
    /\ page = "products" /\ mounted /\ ~loading
    /\ csvText' = IF Len(listings) = 0 THEN csvText ELSE ExportCsv(listings)
    /\ toast' = "default"
    /\ UNCHANGED <<page, mounted, loading, reqs, unrefreshed, db, listings, searchTerm,
                   processingIds, addDialogOpen, creating, formData, formErrors, importing,
                   records>>
    /\ OthersUnchanged

\* the operator imports the file handleExport downloaded
ImportExported ==
    /\ csvText # <<>>
    /\ handleImportFile(csvText, TRUE)

\* handleImportFile once every create has settled
ImportDone ==
    /\ page = "products" /\ importing
    /\ LET mine == {i \in 1..Len(reqs) : reqs[i].by = "handleImportFile"}
           rest == SelectSeq(reqs, LAMBDA r : r.by # "handleImportFile")
           successCount == Cardinality({i \in mine : reqs[i].st = "ok"})
           failedCount == Cardinality(mine) - successCount
       IN  /\ \A i \in mine : reqs[i].st # "sent"
           /\ IF successCount > 0
              THEN LoadListingsStart(rest)
              ELSE reqs' = rest /\ UNCHANGED <<loading, unrefreshed>>
           /\ toast' = IF failedCount > 0 THEN "destructive" ELSE "default"
    /\ importing' = FALSE
    /\ UNCHANGED <<page, mounted, db, listings, searchTerm, processingIds, addDialogOpen,
                   creating, formData, formErrors, csvText, records>>
    /\ OthersUnchanged

\* the backend serves one listings request
ListingsBackend(i, outcome) ==
    /\ i \in 1..Len(reqs) /\ reqs[i].st = "sent"
    /\ reqs[i].api \in {"listings.getAll", "listings.update", "listings.delete",
                        "listings.create"}
    /\ CASE reqs[i].api = "listings.getAll" ->
              /\ reqs' = [reqs EXCEPT ![i].st = outcome,
                            ![i].data = IF outcome = "ok" THEN ListingsBody(db) ELSE <<>>]
              /\ UNCHANGED db
         [] reqs[i].api = "listings.update" ->
              /\ outcome = "ok" => db[reqs[i].arg[1]] # "absent"
              /\ reqs' = [reqs EXCEPT ![i].st = outcome]
              /\ db' = IF outcome = "ok"
                       THEN [db EXCEPT ![reqs[i].arg[1]] = reqs[i].arg[2]] ELSE db
         [] reqs[i].api = "listings.delete" ->
              /\ outcome = "ok" => db[reqs[i].arg[1]] # "absent"
              /\ reqs' = [reqs EXCEPT ![i].st = outcome]
              /\ db' = IF outcome = "ok"
                       THEN [db EXCEPT ![reqs[i].arg[1]] = "absent"] ELSE db
         [] OTHER ->
              /\ reqs' = [reqs EXCEPT ![i].st = outcome]
              /\ IF outcome = "ok"
                 THEN \E id \in ListingIds, st \in Statuses :
                          db[id] = "absent" /\ db' = [db EXCEPT ![id] = st]
                 ELSE UNCHANGED db
    /\ unrefreshed' = (unrefreshed \/ (reqs[i].api # "listings.getAll" /\ outcome = "ok"))
    /\ toast' = "none"
    /\ UNCHANGED <<page, mounted, loading>> /\ ProductsUnchanged /\ OthersUnchanged

----------------------------------------------------------------------------
(* Dashboard *)

ViewUnchanged ==
    UNCHANGED <<listings, searchTerm, processingIds, addDialogOpen, creating, formData,
                formErrors, importing, csvText, records, blacklist, newAsin, newBrand,
                newKeyword, processingAction, deletingId, monitorStatus, checking,
                checkInterval, asin, results, error, response, promise>>

RECURSIVE SumOf(_, _)
\* listings.reduce((sum, l) => sum + (l[field] || 0), 0); the field is optional
SumOf(body, field) ==
    IF body = <<>> THEN 0
    ELSE (IF field \in DOMAIN Head(body) /\ Head(body)[field] # <<>>
          THEN Head(body)[field][1] ELSE 0) + SumOf(Tail(body), field)

initialStats == [activeListings |-> 0, totalRevenue |-> 0, totalProfit |-> 0, outOfStock |-> 0]

DashboardMount ==
    /\ page = "dashboard" /\ ~mounted
    /\ mounted' = TRUE
    /\ loading' = TRUE
    /\ reqs' = Append(reqs, Request("loadDashboardData", "listings.getAll", <<>>))
    /\ unrefreshed' = FALSE
    /\ toast' = "none"
    /\ UNCHANGED <<page, db, dbBlacklist, dbMonitor, stats>> /\ ViewUnchanged

\* a slip: setLoading(false) at the end of the try block instead of in finally
LoadDashboardDataDone_NoFinally(i) ==
    /\ page = "dashboard" /\ i \in 1..Len(reqs)
    /\ reqs[i].by = "loadDashboardData" /\ reqs[i].st # "sent"
    /\ stats' = IF reqs[i].st = "ok"
                THEN [activeListings |-> Len(SelectSeq(reqs[i].data, LAMBDA l : l.status = "active")),
                      totalRevenue |-> SumOf(reqs[i].data, "revenue"),
                      totalProfit |-> SumOf(reqs[i].data, "profit"),
                      outOfStock |-> Len(SelectSeq(reqs[i].data,
                                          LAMBDA l : l.stock_status = <<"out_of_stock">>))]
                ELSE stats
    /\ loading' = IF reqs[i].st = "rejected" THEN loading ELSE FALSE
    /\ reqs' = Remove(reqs, i)
    /\ toast' = "none"
    /\ UNCHANGED <<page, mounted, unrefreshed, db, dbBlacklist, dbMonitor>> /\ ViewUnchanged

\* loadDashboardData after its await: a rejection is logged to the console only
LoadDashboardDataDone(i) ==
    /\ page = "dashboard" /\ i \in 1..Len(reqs)
    /\ reqs[i].by = "loadDashboardData" /\ reqs[i].st # "sent"
    /\ stats' = IF reqs[i].st = "ok"
                THEN [activeListings |-> Len(SelectSeq(reqs[i].data, LAMBDA l : l.status = "active")),
                      totalRevenue |-> SumOf(reqs[i].data, "revenue"),
                      totalProfit |-> SumOf(reqs[i].data, "profit"),
                      outOfStock |-> Len(SelectSeq(reqs[i].data,
                                          LAMBDA l : l.stock_status = <<"out_of_stock">>))]
                ELSE stats
    /\ loading' = FALSE
    /\ reqs' = Remove(reqs, i)
    /\ toast' = "none"
    /\ UNCHANGED <<page, mounted, unrefreshed, db, dbBlacklist, dbMonitor>> /\ ViewUnchanged

----------------------------------------------------------------------------
(* Monitoring *)

Intervals == {30, 60}

LoadMonitorStatusStart(rest) ==
    /\ loading' = TRUE
    /\ reqs' = Append(rest, Request("loadMonitorStatus", "monitor.getStatus", <<>>))
    /\ unrefreshed' = FALSE

MonitoringUnchanged ==
    UNCHANGED <<page, db, dbBlacklist, listings, searchTerm, processingIds, addDialogOpen,
                creating, formData, formErrors, importing, csvText, records, blacklist,
                newAsin, newBrand, newKeyword, processingAction, deletingId,
                asin, results, error, stats, response, promise>>

MonitoringMount ==
    /\ page = "monitoring" /\ ~mounted
    /\ mounted' = TRUE
    /\ LoadMonitorStatusStart(reqs)
    /\ toast' = "none"
    /\ UNCHANGED <<dbMonitor, monitorStatus, checking, checkInterval>> /\ MonitoringUnchanged

\* the operator edits the check-interval input, which no handler reads
SetCheckInterval(v) ==
    /\ page = "monitoring" /\ mounted /\ v # checkInterval
    /\ checkInterval' = v
    /\ toast' = "none"
    /\ UNCHANGED <<mounted, loading, reqs, unrefreshed, dbMonitor, monitorStatus, checking>>
    /\ MonitoringUnchanged

\* the 'save settings' button: onClick={() => loadMonitorStatus()}
SaveSettings ==
    /\ page = "monitoring" /\ mounted /\ Room(1)
    /\ LoadMonitorStatusStart(reqs)
    /\ toast' = "none"
    /\ UNCHANGED <<mounted, dbMonitor, monitorStatus, checking, checkInterval>>
    /\ MonitoringUnchanged

\* a slip: the response is stored without looking at response.success
LoadMonitorStatusDone_NoSuccessTest(i) ==
    /\ page = "monitoring" /\ i \in 1..Len(reqs)
    /\ reqs[i].by = "loadMonitorStatus" /\ reqs[i].st # "sent"
    /\ monitorStatus' = IF reqs[i].st # "rejected" THEN Some(reqs[i].data) ELSE monitorStatus
    /\ loading' = FALSE
    /\ reqs' = Remove(reqs, i)
    /\ toast' = IF reqs[i].st = "rejected" THEN "destructive" ELSE "none"
    /\ UNCHANGED <<mounted, unrefreshed, dbMonitor, checking, checkInterval>>
    /\ MonitoringUnchanged

LoadMonitorStatusDone(i) ==
    /\ page = "monitoring" /\ i \in 1..Len(reqs)
    /\ reqs[i].by = "loadMonitorStatus" /\ reqs[i].st # "sent"
    /\ monitorStatus' = IF reqs[i].st = "ok" THEN Some(reqs[i].data) ELSE monitorStatus
    /\ loading' = FALSE
    /\ reqs' = Remove(reqs, i)
    /\ toast' = IF reqs[i].st = "rejected" THEN "destructive" ELSE "none"
    /\ UNCHANGED <<mounted, unrefreshed, dbMonitor, checking, checkInterval>>
    /\ MonitoringUnchanged

\* handleCheckAll up to its await; the button is part of the loaded status card
handleCheckAll ==
    /\ page = "monitoring" /\ ~loading /\ monitorStatus # Null /\ ~checking /\ Room(1)
    /\ checking' = TRUE
    /\ reqs' = Append(reqs, Request("handleCheckAll", "monitor.checkAll", <<>>))
    /\ toast' = "none"
    /\ UNCHANGED <<mounted, loading, unrefreshed, dbMonitor, monitorStatus, checkInterval>>
    /\ MonitoringUnchanged

\* handleCheckAll after its await
CheckAllDone(i) ==
    /\ page = "monitoring" /\ i \in 1..Len(reqs)
    /\ reqs[i].by = "handleCheckAll" /\ reqs[i].st # "sent"
    /\ CASE reqs[i].st = "ok" ->
              /\ LoadMonitorStatusStart(Remove(reqs, i))
              /\ toast' = "default"
         [] reqs[i].st = "nosuccess" ->
              /\ reqs' = Remove(reqs, i)
              /\ toast' = "none"
              /\ UNCHANGED <<loading, unrefreshed>>
         [] OTHER ->
              /\ reqs' = Remove(reqs, i)
              /\ toast' = "destructive"
              /\ UNCHANGED <<loading, unrefreshed>>
    /\ checking' = FALSE
    /\ UNCHANGED <<mounted, dbMonitor, monitorStatus, checkInterval>>
    /\ MonitoringUnchanged

\* the backend serves one monitoring request
MonitorBackend(i, outcome) ==
    /\ i \in 1..Len(reqs) /\ reqs[i].st = "sent"
    /\ reqs[i].api \in {"monitor.getStatus", "monitor.checkAll"}
    /\ IF reqs[i].api = "monitor.getStatus"
       THEN /\ reqs' = [reqs EXCEPT ![i].st = outcome,
                          ![i].data = IF outcome = "ok"
                                      THEN <<"status", dbMonitor>> ELSE <<>>]
            /\ UNCHANGED <<dbMonitor, unrefreshed>>
       ELSE /\ reqs' = [reqs EXCEPT ![i].st = outcome]
            /\ dbMonitor' = IF outcome = "ok" THEN "checked" ELSE dbMonitor
            /\ unrefreshed' = (unrefreshed \/ outcome = "ok")
    /\ toast' = "none"
    /\ UNCHANGED <<mounted, loading, monitorStatus, checking, checkInterval>>
    /\ MonitoringUnchanged

----------------------------------------------------------------------------
(* Research *)

AsinLength == 10

ValidAsin == <<"B", "0", "0", "0", "0", "0", "0", "0", "0", "X">>

\* what the operator may type into the ASIN input
AsinInputs ==
    { <<>>, <<SPACE>>, <<"B", "0">>,
      <<"b", "0", "0", "0", "0", "0", "0", "0", "0", "x">>,
      <<SPACE>> \o ValidAsin,
      ValidAsin \o <<"0">>,
      <<"a", "1", "2", "3", "4", "5", "6", "7", "8", "9">>,
      <<"B", "0", "0", "0", "0", "-", "0", "0", "0", "X">> }

\* the character class [A-Z0-9], as far as the model's alphabet has it
IsAsinChar(c) == c \in {"A", "B", "T", "X", "Z", "0", "1", "2", "3", "4", "5", "6", "7", "8", "9"}

\* a slip: the pattern has no length, /^[A-Z0-9]+$/
IsAsinFormat_AnyLength(s) == Len(s) > 0 /\ \A k \in 1..Len(s) : IsAsinChar(s[k])

\* /^[A-Z0-9]{10}$/.test(s)
IsAsinFormat(s) == Len(s) = AsinLength /\ \A k \in 1..Len(s) : IsAsinChar(s[k])

ResearchUnchanged ==
    UNCHANGED <<page, mounted, unrefreshed, db, dbBlacklist, dbMonitor, listings, searchTerm,
                processingIds, addDialogOpen, creating, formData, formErrors, importing,
                csvText, records, blacklist, newAsin, newBrand, newKeyword,
                processingAction, deletingId, monitorStatus, checking, checkInterval, stats,
                response, promise>>

\* the ASIN input: setAsin(e.target.value.toUpperCase()), disabled while loading
SetAsin(v) ==
    /\ page = "research" /\ ~loading /\ ToUpperCase(v) # asin
    /\ asin' = ToUpperCase(v)
    /\ toast' = "none"
    /\ UNCHANGED <<loading, reqs, results, error>> /\ ResearchUnchanged

\* a slip: the format test is left out
handleSearch_NoFormatTest ==
    /\ page = "research" /\ ~loading
    /\ IF Trim(asin) = <<>>
       THEN /\ toast' = "destructive"
            /\ UNCHANGED <<loading, reqs, results, error>>
       ELSE /\ Room(1)
            /\ loading' = TRUE
            /\ error' = Null
            /\ results' = Null
            /\ reqs' = Append(reqs, Request("handleSearch", "compare.us-jp", Trim(asin)))
            /\ toast' = "none"
    /\ UNCHANGED asin /\ ResearchUnchanged

\* a slip: the button and the Enter key work while loading
handleSearch_WhileLoading ==
    /\ page = "research"
    /\ IF Trim(asin) = <<>> \/ ~IsAsinFormat(Trim(asin))
       THEN /\ toast' = "destructive"
            /\ UNCHANGED <<loading, reqs, results, error>>
       ELSE /\ Room(1)
            /\ loading' = TRUE
            /\ error' = Null
            /\ results' = Null
            /\ reqs' = Append(reqs, Request("handleSearch", "compare.us-jp", Trim(asin)))
            /\ toast' = "none"
    /\ UNCHANGED asin /\ ResearchUnchanged

\* handleSearch up to its await; the button and the Enter key are off while loading
handleSearch ==
    /\ page = "research" /\ ~loading
    /\ IF Trim(asin) = <<>> \/ ~IsAsinFormat(Trim(asin))
       THEN /\ toast' = "destructive"
            /\ UNCHANGED <<loading, reqs, results, error>>
       ELSE /\ Room(1)
            /\ loading' = TRUE
            /\ error' = Null
            /\ results' = Null
            /\ reqs' = Append(reqs, Request("handleSearch", "compare.us-jp", Trim(asin)))
            /\ toast' = "none"
    /\ UNCHANGED asin /\ ResearchUnchanged

DefaultSearchError == <<"[kensaku ni shippai shimashita]">>
BodySearchError == <<"[body.error]">>
NetworkSearchError == <<"[fetch failed]">>
SearchErrors == {DefaultSearchError, BodySearchError, NetworkSearchError}

\* a slip: setResults(data) before data.success is looked at
SearchDone_ResultsFirst(i) ==
    /\ page = "research" /\ i \in 1..Len(reqs)
    /\ reqs[i].by = "handleSearch" /\ reqs[i].st # "sent"
    /\ IF reqs[i].st = "ok"
       THEN /\ results' = Some(reqs[i].data)
            /\ toast' = "default"
            /\ UNCHANGED error
       ELSE /\ error' = Some(reqs[i].data)
            /\ toast' = "destructive"
            /\ results' = IF reqs[i].st = "nosuccess" THEN Some(reqs[i].data) ELSE results
    /\ loading' = FALSE
    /\ reqs' = Remove(reqs, i)
    /\ UNCHANGED asin /\ ResearchUnchanged

\* handleSearch after its await
SearchDone(i) ==
    /\ page = "research" /\ i \in 1..Len(reqs)
    /\ reqs[i].by = "handleSearch" /\ reqs[i].st # "sent"
    /\ IF reqs[i].st = "ok"
       THEN /\ results' = Some(reqs[i].data)
            /\ toast' = "default"
            /\ UNCHANGED error
       ELSE /\ error' = Some(reqs[i].data)
            /\ toast' = "destructive"
            /\ UNCHANGED results
    /\ loading' = FALSE
    /\ reqs' = Remove(reqs, i)
    /\ UNCHANGED asin /\ ResearchUnchanged

\* the backend serves the compare request: a result, or an error whose text is the
\* body's error field, the default text when the body has none, or the fetch error
ResearchBackend(i, outcome, message) ==
    /\ i \in 1..Len(reqs) /\ reqs[i].st = "sent" /\ reqs[i].api = "compare.us-jp"
    /\ outcome = "ok" => message = DefaultSearchError
    /\ outcome = "nosuccess" => message # NetworkSearchError
    /\ reqs' = [reqs EXCEPT ![i].st = outcome,
                  ![i].data = IF outcome = "ok" THEN <<"result">> \o reqs[i].arg ELSE message]
    /\ toast' = "none"
    /\ UNCHANGED <<loading, asin, results, error>> /\ ResearchUnchanged

----------------------------------------------------------------------------
(* Blacklist *)

EntryIds == {"e1", "e2"}

\* the entry types the client creates
AddTypes == {"asin", "brand", "keyword"}

\* the entry types the backend holds
EntryTypes == AddTypes \cup {"manufacturer"}

\* what the operator types into the three inputs, which start empty
AsinFieldInputs == {<<"b", "1">>}
BrandInputs == {<<"x">>}
KeywordInputs == {<<SPACE>>, <<"a", COMMA, SPACE, "b">>}

\* the body of GET /blacklist for a backend state
BlacklistBody(d) ==
    LET present(id) == d[id] # "absent"
        ids == SelectSeq(<<"e1", "e2">>, present)
    IN  [k \in 1..Len(ids) |-> [entry_id |-> ids[k], entry_type |-> d[ids[k]]]]

toEntry(entry) == [id |-> entry.entry_id, type |-> entry.entry_type]

\* a slip: the brands filter forgets the manufacturer entries
Transform_BrandOnly(entries) ==
    LET map(es) == [k \in 1..Len(es) |-> toEntry(es[k])]
    IN  [asins |-> map(SelectSeq(entries, LAMBDA e : e.entry_type = "asin")),
         brands |-> map(SelectSeq(entries, LAMBDA e : e.entry_type = "brand")),
         keywords |-> map(SelectSeq(entries, LAMBDA e : e.entry_type = "keyword"))]

\* the groups loadBlacklist builds from response.entries
Transform(entries) ==
    LET map(es) == [k \in 1..Len(es) |-> toEntry(es[k])]
    IN  [asins |-> map(SelectSeq(entries, LAMBDA e : e.entry_type = "asin")),
         brands |-> map(SelectSeq(entries, LAMBDA e : e.entry_type = "brand"
                                                  \/ e.entry_type = "manufacturer")),
         keywords |-> map(SelectSeq(entries, LAMBDA e : e.entry_type = "keyword"))]

BlacklistUnchanged ==
    UNCHANGED <<page, db, dbMonitor, listings, searchTerm, processingIds, addDialogOpen,
                creating, formData, formErrors, importing, csvText, records,
                monitorStatus, checking, checkInterval, asin, results, error, stats,
                response, promise>>

LoadBlacklistStart(rest) ==
    /\ loading' = TRUE
    /\ reqs' = Append(rest, Request("loadBlacklist", "blacklist.getAll", <<>>))
    /\ unrefreshed' = FALSE

BlacklistMount ==
    /\ page = "blacklist" /\ ~mounted
    /\ mounted' = TRUE
    /\ LoadBlacklistStart(reqs)
    /\ toast' = "none"
    /\ UNCHANGED <<dbBlacklist, blacklist, newAsin, newBrand, newKeyword, processingAction,
                   deletingId>>
    /\ BlacklistUnchanged

LoadBlacklistDone(i) ==
    /\ page = "blacklist" /\ i \in 1..Len(reqs)
    /\ reqs[i].by = "loadBlacklist" /\ reqs[i].st # "sent"
    /\ blacklist' = IF reqs[i].st = "ok" THEN Some(Transform(reqs[i].data)) ELSE blacklist
    /\ loading' = FALSE
    /\ reqs' = Remove(reqs, i)
    /\ toast' = IF reqs[i].st = "rejected" THEN "destructive" ELSE "none"
    /\ UNCHANGED <<mounted, unrefreshed, dbBlacklist, newAsin, newBrand, newKeyword,
                   processingAction, deletingId>>
    /\ BlacklistUnchanged

\* the three inputs; the ASIN input upper-cases what is typed
SetNewAsin(v) ==
    /\ page = "blacklist" /\ mounted /\ ToUpperCase(v) # newAsin
    /\ newAsin' = ToUpperCase(v)
    /\ toast' = "none"
    /\ UNCHANGED <<mounted, loading, reqs, unrefreshed, dbBlacklist, blacklist, newBrand,
                   newKeyword, processingAction, deletingId>>
    /\ BlacklistUnchanged

SetNewBrand(v) ==
    /\ page = "blacklist" /\ mounted /\ v # newBrand
    /\ newBrand' = v
    /\ toast' = "none"
    /\ UNCHANGED <<mounted, loading, reqs, unrefreshed, dbBlacklist, blacklist, newAsin,
                   newKeyword, processingAction, deletingId>>
    /\ BlacklistUnchanged

SetNewKeyword(v) ==
    /\ page = "blacklist" /\ mounted /\ v # newKeyword
    /\ newKeyword' = v
    /\ toast' = "none"
    /\ UNCHANGED <<mounted, loading, reqs, unrefreshed, dbBlacklist, blacklist, newAsin,
                   newBrand, processingAction, deletingId>>
    /\ BlacklistUnchanged

isProcessing(action) == processingAction = Some(action)

\* values.map(trim).filter(nonempty)
CleanedValues(values) ==
    SelectSeq([k \in 1..Len(values) |-> Trim(values[k])], LAMBDA v : Len(v) > 0)

\* the values handleAddAsin, handleAddBrand and handleAddKeywords pass
AddValues(type) ==
    CASE type = "asin" -> <<ToUpperCase(newAsin)>>
      [] type = "brand" -> <<newBrand>>
      [] OTHER -> Split(newKeyword, {LF, COMMA, "[touten]"})

AddAction(type) == "add-" \o type

\* handleAddEntries up to its first await; each add button is disabled while its own
\* action is the processing action
handleAddEntries(type) ==
    /\ page = "blacklist" /\ mounted /\ ~isProcessing(AddAction(type))
    /\ LET cleanedValues == CleanedValues(AddValues(type))
       IN  IF Len(cleanedValues) = 0
           THEN /\ toast' = "destructive"
                /\ UNCHANGED <<processingAction, reqs>>
           ELSE /\ Room(1)
                /\ processingAction' = Some(AddAction(type))
                /\ reqs' = Append(reqs, Request("handleAddEntries", "blacklist.create",
                                                <<type, 1, Len(cleanedValues)>>))
                /\ toast' = "none"
    /\ UNCHANGED <<mounted, loading, unrefreshed, dbBlacklist, blacklist, newAsin, newBrand,
                   newKeyword, deletingId>>
    /\ BlacklistUnchanged

\* handleAddEntries after the await of its k-th create: the next create, or the end
AddEntriesStep(i) ==
    /\ page = "blacklist" /\ i \in 1..Len(reqs)
    /\ reqs[i].by = "handleAddEntries" /\ reqs[i].st # "sent"
    /\ LET type == reqs[i].arg[1]
           k == reqs[i].arg[2]
           n == reqs[i].arg[3]
       IN  CASE reqs[i].st = "rejected" ->
                  /\ reqs' = Remove(reqs, i)
                  /\ toast' = "destructive"
                  /\ processingAction' = Null
                  /\ UNCHANGED <<loading, unrefreshed, newAsin, newBrand, newKeyword>>
             [] reqs[i].st # "rejected" /\ k < n ->
                  /\ reqs' = Append(Remove(reqs, i),
                                    Request("handleAddEntries", "blacklist.create",
                                            <<type, k + 1, n>>))
                  /\ toast' = "none"
                  /\ UNCHANGED <<processingAction, loading, unrefreshed, newAsin, newBrand,
                                 newKeyword>>
             [] OTHER ->
                  /\ LoadBlacklistStart(Remove(reqs, i))
                  /\ toast' = "default"
                  /\ newAsin' = IF type = "asin" THEN <<>> ELSE newAsin
                  /\ newBrand' = IF type = "brand" THEN <<>> ELSE newBrand
                  /\ newKeyword' = IF type = "keyword" THEN <<>> ELSE newKeyword
                  /\ processingAction' = Null
    /\ UNCHANGED <<mounted, dbBlacklist, blacklist, deletingId>>
    /\ BlacklistUnchanged

\* handleCheckAsin up to its await
handleCheckAsin ==
    /\ page = "blacklist" /\ mounted /\ ~isProcessing("check")
    /\ IF Trim(newAsin) = <<>>
       THEN /\ toast' = "destructive"
            /\ UNCHANGED <<processingAction, reqs>>
       ELSE /\ Room(1)
            /\ processingAction' = Some("check")
            /\ reqs' = Append(reqs, Request("handleCheckAsin", "blacklist.check", <<>>))
            /\ toast' = "none"
    /\ UNCHANGED <<mounted, loading, unrefreshed, dbBlacklist, blacklist, newAsin, newBrand,
                   newKeyword, deletingId>>
    /\ BlacklistUnchanged

\* handleCheckAsin after its await; data tells whether the ASIN is blacklisted
CheckAsinDone(i) ==
    /\ page = "blacklist" /\ i \in 1..Len(reqs)
    /\ reqs[i].by = "handleCheckAsin" /\ reqs[i].st # "sent"
    /\ toast' = IF reqs[i].st = "rejected" \/ (reqs[i].st = "ok" /\ reqs[i].data = <<TRUE>>)
                THEN "destructive" ELSE "default"
    /\ processingAction' = Null
    /\ reqs' = Remove(reqs, i)
    /\ UNCHANGED <<mounted, loading, unrefreshed, dbBlacklist, blacklist, newAsin, newBrand,
                   newKeyword, deletingId>>
    /\ BlacklistUnchanged

\* the entries the three lists render, each with a delete button
ShownEntries ==
    IF loading \/ blacklist = Null THEN {}
    ELSE LET b == blacklist[1]
         IN  {b.asins[k].id : k \in 1..Len(b.asins)}
               \cup {b.brands[k].id : k \in 1..Len(b.brands)}
               \cup {b.keywords[k].id : k \in 1..Len(b.keywords)}

\* handleDeleteEntry up to its await
handleDeleteEntry(entryId) ==
    /\ page = "blacklist" /\ entryId \in ShownEntries /\ deletingId # Some(entryId) /\ Room(1)
    /\ deletingId' = Some(entryId)
    /\ reqs' = Append(reqs, Request("handleDeleteEntry", "blacklist.delete", <<entryId>>))
    /\ toast' = "none"
    /\ UNCHANGED <<mounted, loading, unrefreshed, dbBlacklist, blacklist, newAsin, newBrand,
                   newKeyword, processingAction>>
    /\ BlacklistUnchanged

\* handleDeleteEntry after its await
DeleteEntryDone(i) ==
    /\ page = "blacklist" /\ i \in 1..Len(reqs)
    /\ reqs[i].by = "handleDeleteEntry" /\ reqs[i].st # "sent"
    /\ IF reqs[i].st = "rejected"
       THEN /\ reqs' = Remove(reqs, i)
            /\ toast' = "destructive"
            /\ UNCHANGED <<loading, unrefreshed>>
       ELSE /\ LoadBlacklistStart(Remove(reqs, i))
            /\ toast' = "default"
    /\ deletingId' = Null
    /\ UNCHANGED <<mounted, dbBlacklist, blacklist, newAsin, newBrand, newKeyword,
                   processingAction>>
    /\ BlacklistUnchanged

\* the backend serves one blacklist request
BlacklistBackend(i, outcome, flag) ==
    /\ i \in 1..Len(reqs) /\ reqs[i].st = "sent"
    /\ reqs[i].api \in {"blacklist.getAll", "blacklist.check", "blacklist.create",
                        "blacklist.delete"}
    /\ (reqs[i].api = "blacklist.check" /\ outcome = "ok") \/ ~flag
    /\ CASE reqs[i].api = "blacklist.getAll" ->
              /\ reqs' = [reqs EXCEPT ![i].st = outcome,
                            ![i].data = IF outcome = "ok" THEN BlacklistBody(dbBlacklist)
                                        ELSE <<>>]
              /\ UNCHANGED dbBlacklist
         [] reqs[i].api = "blacklist.check" ->
              /\ reqs' = [reqs EXCEPT ![i].st = outcome,
                            ![i].data = IF outcome = "ok" THEN <<flag>> ELSE <<>>]
              /\ UNCHANGED dbBlacklist
         [] reqs[i].api = "blacklist.create" ->
              /\ outcome = "ok" => \E id \in EntryIds : dbBlacklist[id] = "absent"
              /\ reqs' = [reqs EXCEPT ![i].st = outcome]
              /\ dbBlacklist' =
                    IF outcome = "ok"
                    THEN LET id == IF dbBlacklist["e1"] = "absent" THEN "e1" ELSE "e2"
                         IN  [dbBlacklist EXCEPT ![id] = reqs[i].arg[1]]
                    ELSE dbBlacklist
         [] OTHER ->
              /\ outcome = "ok" => dbBlacklist[reqs[i].arg[1]] # "absent"
              /\ reqs' = [reqs EXCEPT ![i].st = outcome]
              /\ dbBlacklist' = IF outcome = "ok"
                                THEN [dbBlacklist EXCEPT ![reqs[i].arg[1]] = "absent"]
                                ELSE dbBlacklist
    /\ unrefreshed' = (unrefreshed \/ (outcome = "ok" /\ reqs[i].api \in
                                          {"blacklist.create", "blacklist.delete"}))
    /\ toast' = "none"
    /\ UNCHANGED <<mounted, loading, blacklist, newAsin, newBrand, newKeyword,
                   processingAction, deletingId>>
    /\ BlacklistUnchanged

----------------------------------------------------------------------------
(* Specifications *)

NoListings == [id \in ListingIds |-> "absent"]
NoEntries == [id \in EntryIds |-> "absent"]

\* the state after the first render of the view routed at p, over a backend that
\* holds the listings d and the blacklist entries b
Start(p, d, b) ==
    /\ page = p
    /\ mounted = FALSE
    /\ loading = (page # "research")
    /\ reqs = <<>>
    /\ toast = "none"
    /\ unrefreshed = FALSE
    /\ db = d
    /\ listings = <<>>
    /\ searchTerm = <<>>
    /\ processingIds = {}
    /\ addDialogOpen = FALSE
    /\ creating = FALSE
    /\ formData = emptyFormState
    /\ formErrors = {}
    /\ importing = FALSE
    /\ csvText = <<>>
    /\ records = <<>>
    /\ dbBlacklist = b
    /\ blacklist = Null
    /\ newAsin = <<>>
    /\ newBrand = <<>>
    /\ newKeyword = <<>>
    /\ processingAction = Null
    /\ deletingId = Null
    /\ dbMonitor = "never"
    /\ monitorStatus = Null
    /\ checking = FALSE
    /\ checkInterval = 30
    /\ asin = <<>>
    /\ results = Null
    /\ error = Null
    /\ stats = initialStats
    /\ response = Null
    /\ promise = Null

AnyListings == [ListingIds -> Statuses \cup {"absent"}]
AnyEntries == [EntryIds -> EntryTypes \cup {"absent"}]

\* a view requests its own collection only, so the backend's other collections are
\* left empty; the Blacklist view starts over at most one entry and adds to it
Init ==
    \E p \in Pages :
        \E d \in IF p \in {"dashboard", "products"} THEN AnyListings ELSE {NoListings},
           b \in IF p = "blacklist"
                 THEN {e \in AnyEntries : e["e2"] = "absent" /\ e["e1"] \notin AddTypes}
                 ELSE {NoEntries} :
            Start(p, d, b)

InitProducts == \E d \in AnyListings : Start("products", d, NoEntries)

NextDashboard ==
    \/ DashboardMount
    \/ \E i \in 1..MaxInFlight : LoadDashboardDataDone(i)

\* the Products view with the operator working in the add dialog
NextProductsForm ==
    \/ ProductsMount
    \/ \E i \in 1..MaxInFlight : LoadListingsDone(i)
    \/ OpenAddDialog
    \/ DismissAddDialog
    \/ CancelAddDialog
    \/ \E field \in RequiredFields, value \in FieldValues : handleInputChange(field, value)
    \/ handleCreateListing
    \/ \E i \in 1..MaxInFlight : CreateListingDone(i)
    \/ \E i \in 1..MaxInFlight, outcome \in Outcomes : ListingsBackend(i, outcome)

NextMonitoring ==
    \/ MonitoringMount
    \/ \E v \in Intervals : SetCheckInterval(v)
    \/ SaveSettings
    \/ \E i \in 1..MaxInFlight : LoadMonitorStatusDone(i)
    \/ handleCheckAll
    \/ \E i \in 1..MaxInFlight : CheckAllDone(i)
    \/ \E i \in 1..MaxInFlight, outcome \in Outcomes : MonitorBackend(i, outcome)

NextResearch ==
    \/ \E v \in AsinInputs : SetAsin(v)
    \/ handleSearch
    \/ \E i \in 1..MaxInFlight : SearchDone(i)
    \/ \E i \in 1..MaxInFlight, outcome \in Outcomes, message \in SearchErrors :
            ResearchBackend(i, outcome, message)

\* the Blacklist view with the operator adding and checking
NextBlacklistAdd ==
    \/ BlacklistMount
    \/ \E i \in 1..MaxInFlight : LoadBlacklistDone(i)
    \/ \E v \in AsinFieldInputs : SetNewAsin(v)
    \/ \E v \in BrandInputs : SetNewBrand(v)
    \/ \E v \in KeywordInputs : SetNewKeyword(v)
    \/ \E type \in AddTypes : handleAddEntries(type)
    \/ \E i \in 1..MaxInFlight : AddEntriesStep(i)
    \/ handleCheckAsin
    \/ \E i \in 1..MaxInFlight : CheckAsinDone(i)
    \/ \E i \in 1..MaxInFlight, outcome \in Outcomes, flag \in BOOLEAN :
            BlacklistBackend(i, outcome, flag)

Next ==
    \/ NextDashboard
    \/ NextProductsForm
    \/ NextMonitoring
    \/ NextResearch
    \/ NextBlacklistAdd

Spec == Init /\ [][Next]_vars

SpecProductsForm == InitProducts /\ [][NextProductsForm]_vars

\* the Blacklist view with the operator working in the three lists
InitBlacklist == \E b \in AnyEntries : Start("blacklist", NoListings, b)

NextBlacklist ==
    \/ BlacklistMount
    \/ \E i \in 1..MaxInFlight : LoadBlacklistDone(i)
    \/ \E entryId \in EntryIds : handleDeleteEntry(entryId)
    \/ \E i \in 1..MaxInFlight : DeleteEntryDone(i)
    \/ \E i \in 1..MaxInFlight, outcome \in Outcomes :
            BlacklistBackend(i, outcome, FALSE)

SpecBlacklist == InitBlacklist /\ [][NextBlacklist]_vars

\* the Products view with the operator working in the table

\* the listing a table row passes to its buttons
Row(id, st) == Normalize(ListingsBody([NoListings EXCEPT ![id] = st]))[1]

NextProducts ==
    \/ ProductsMount
    \/ SearchClick
    \/ \E t \in SearchTerms : SetSearchTerm(t)
    \/ \E i \in 1..MaxInFlight : LoadListingsDone(i)
    \/ \E id \in ListingIds, st \in Statuses : handleToggleStatus(Row(id, st))
    \/ \E listingId \in ListingIds, confirmed \in BOOLEAN : handleDelete(listingId, confirmed)
    \/ \E i \in 1..MaxInFlight : RowActionDone(i)
    \/ \E i \in 1..MaxInFlight, outcome \in Outcomes : ListingsBackend(i, outcome)

SpecProducts == InitProducts /\ [][NextProducts]_vars

\* the Products view with the operator pressing the row buttons only
NextProductsRows ==
    \/ ProductsMount
    \/ \E i \in 1..MaxInFlight : LoadListingsDone(i)
    \/ \E id \in ListingIds, st \in Statuses : handleToggleStatus(Row(id, st))
    \/ \E listingId \in ListingIds, confirmed \in BOOLEAN : handleDelete(listingId, confirmed)
    \/ \E i \in 1..MaxInFlight : RowActionDone(i)
    \/ \E i \in 1..MaxInFlight, outcome \in Outcomes : ListingsBackend(i, outcome)

SpecProductsRows == InitProducts /\ [][NextProductsRows]_vars

\* the Products view with the operator importing files
NextProductsImport ==
    \/ ProductsMount
    \/ \E i \in 1..MaxInFlight : LoadListingsDone(i)
    \/ \E file \in ImportFiles, readable \in BOOLEAN : handleImportFile(file, readable)
    \/ ImportDone
    \/ \E i \in 1..MaxInFlight, outcome \in Outcomes : ListingsBackend(i, outcome)

SpecProductsImport == InitProducts /\ [][NextProductsImport]_vars

\* the CSV round trip: the Products view holds loaded listings whose titles are
\* drawn from the characters the CSV format treats specially
TitleChars == {"a", QUOTE, COMMA, SPACE}
Titles == UNION {[1..n -> TitleChars] : n \in 1..MaxTitleLen}

Loaded(title) ==
    [id |-> "L1", asin |-> <<"B", "1">>, title |-> title, listing_price |-> 98,
     profit |-> <<30>>, status |-> "active", stock_status |-> <<"in_stock">>,
     jp_price |-> <<60>>, us_price |-> <<>>]

InitCsv ==
    /\ page = "products"
    /\ mounted = TRUE
    /\ loading = FALSE
    /\ reqs = <<>>
    /\ toast = "none"
    /\ unrefreshed = FALSE
    /\ db = [NoListings EXCEPT !["L1"] = "active", !["L2"] = "paused"]
    /\ \E title \in Titles :
          listings \in {<<Loaded(title)>>, <<Loaded(title)>> \o Normalize(ListingsBody(db))}
    /\ searchTerm = <<>>
    /\ processingIds = {}
    /\ addDialogOpen = FALSE
    /\ creating = FALSE
    /\ formData = emptyFormState
    /\ formErrors = {}
    /\ importing = FALSE
    /\ csvText = <<>>
    /\ records = <<>>
    /\ dbBlacklist = NoEntries
    /\ blacklist = Null
    /\ newAsin = <<>>
    /\ newBrand = <<>>
    /\ newKeyword = <<>>
    /\ processingAction = Null
    /\ deletingId = Null
    /\ dbMonitor = "never"
    /\ monitorStatus = Null
    /\ checking = FALSE
    /\ checkInterval = 30
    /\ asin = <<>>
    /\ results = Null
    /\ error = Null
    /\ stats = initialStats
    /\ response = Null
    /\ promise = Null

NextCsv ==
    \/ handleExport
    \/ ImportExported

SpecCsv == InitCsv /\ [][NextCsv]_vars

\* the Research view alone
InitResearch == Start("research", NoListings, NoEntries)

SpecResearch == InitResearch /\ [][NextResearch]_vars

\* one call of apiRequest, made from any view
NextApi ==
    \/ \E r \in Responses : FetchResolves(r)
    \/ ApiRequestSettles

SpecApi == Init /\ [][NextApi]_vars

\* the four views that load a collection, with the operator's actions that start a
\* load; the continuation of an await runs once its promise has settled
InitLoads ==
    \E p \in Pages \ {"research"} :
        \E d \in IF p \in {"dashboard", "products"} THEN AnyListings ELSE {NoListings},
           b \in IF p = "blacklist"
                 THEN [EntryIds -> {"absent", "asin", "manufacturer"}] ELSE {NoEntries} :
            Start(p, d, b)

\* the Products view with the operator searching again and toggling
NextProductsLoads ==
    \/ ProductsMount
    \/ SearchClick
    \/ \E i \in 1..MaxInFlight : LoadListingsDone(i)
    \/ \E id \in ListingIds, st \in Statuses : handleToggleStatus(Row(id, st))
    \/ \E i \in 1..MaxInFlight : RowActionDone(i)
    \/ \E i \in 1..MaxInFlight, outcome \in Outcomes : ListingsBackend(i, outcome)

NextLoads ==
    \/ NextDashboard
    \/ NextProductsLoads
    \/ NextMonitoring
    \/ NextBlacklist

LoadsFairness ==
    \A i \in 1..MaxInFlight :
        /\ WF_vars(LoadDashboardDataDone(i))
        /\ WF_vars(LoadListingsDone(i))
        /\ WF_vars(LoadMonitorStatusDone(i))
        /\ WF_vars(LoadBlacklistDone(i))

SpecLoads == InitLoads /\ [][NextLoads]_vars /\ LoadsFairness

----------------------------------------------------------------------------
(* Claims *)

\* the step sends one more request
Sent == Len(reqs') = Len(reqs) + 1

\* the request the step has sent
LastSent == reqs'[Len(reqs')]

NonBlank(s) == Trim(s) # <<>>

\* C1: every mutation the backend has applied is followed by a fresh GET of the
\* view's collection: the view never comes to rest, with no request left that a
\* handler awaits, while an applied mutation has no GET issued after it
C1_MutationIsRefreshed == unrefreshed => reqs # <<>>

\* C2: whenever a handler takes a rejected request off its await, the step shows a
\* destructive toast
C2_RejectionIsToasted ==
    [][LET rejected(r) == Cardinality({i \in 1..Len(r) : r[i].st = "rejected"})
       IN  rejected(reqs') < rejected(reqs) => toast' = "destructive"]_vars

\* C3 as stated: in every view a submit sends its request exactly when the required
\* fields are non-empty after trimming, whatever their content
C3_OnlyRequiredFields ==
    [][/\ handleCreateListing => (Sent <=> \A f \in RequiredFields : NonBlank(formData[f]))
       /\ \A type \in AddTypes :
             handleAddEntries(type) =>
                (Sent <=> \E k \in 1..Len(AddValues(type)) : NonBlank(AddValues(type)[k]))
       /\ handleCheckAsin => (Sent <=> NonBlank(newAsin))
       /\ handleSearch => (Sent <=> NonBlank(asin))]_vars

\* C3 as amended: the Products add form, the Blacklist add buttons and the Blacklist
\* check send exactly when the required fields are non-empty after trimming; the
\* Research search sends exactly when the trimmed ASIN is ten characters of A-Z, 0-9
C3_RequiredFieldsAndAsinFormat ==
    [][/\ handleCreateListing => (Sent <=> \A f \in RequiredFields : NonBlank(formData[f]))
       /\ \A type \in AddTypes :
             handleAddEntries(type) =>
                (Sent <=> \E k \in 1..Len(AddValues(type)) : NonBlank(AddValues(type)[k]))
       /\ handleCheckAsin => (Sent <=> NonBlank(newAsin))
       /\ handleSearch =>
             (Sent <=> /\ Len(Trim(asin)) = AsinLength
                       /\ \A k \in 1..Len(Trim(asin)) : IsAsinChar(Trim(asin)[k]))]_vars

\* a search for a non-empty malformed ASIN was refused with a toast
C3_Witness ==
    /\ page = "research" /\ asin = <<"B", "0">>
    /\ toast = "destructive" /\ reqs = <<>> /\ ~loading

\* C4: handleCreateListing sends a create request iff asin, title and listing_price
\* are all non-empty after trimming; otherwise it sends nothing, sets one form error
\* for each empty field and leaves formData, the dialog and creating as they are
C4_CreateValidation ==
    [][handleCreateListing =>
          LET empty == {f \in RequiredFields : Trim(formData[f]) = <<>>}
          IN  IF empty = {}
              THEN Sent /\ LastSent.api = "listings.create"
              ELSE /\ reqs' = reqs
                   /\ formErrors' = empty
                   /\ formData' = formData
                   /\ addDialogOpen' = addDialogOpen
                   /\ creating' = creating]_vars

\* a submit with a blank title and a blank price was refused
C4_Witness ==
    /\ page = "products" /\ addDialogOpen /\ ~creating
    /\ formErrors = {"title", "listing_price"}
    /\ formData.asin = <<"B", "1">> /\ formData.title = <<SPACE>>
    /\ \A i \in 1..Len(reqs) : reqs[i].api # "listings.create"

\* C5: the loading flag is true in every state in which a collection fetch of the
\* view is in flight
C5_LoadingWhileFetching ==
    (\E i \in 1..Len(reqs) :
        /\ reqs[i].by \in {"loadListings", "loadBlacklist", "loadMonitorStatus"}
        /\ reqs[i].st = "sent")
    => loading

\* C6: the Products empty state is rendered only when loading is false and no
\* listing is loaded
C6_EmptyStateOnlyWhenEmpty == EmptyStateShown => (~loading /\ Len(listings) = 0)

\* C7: when loadBlacklist succeeds, every returned entry is in exactly one of the
\* three groups, the one of its type, and the groups hold nothing else
C7_GroupsPartitionEntries ==
    [][\A i \in 1..Len(reqs) :
          (LoadBlacklistDone(i) /\ reqs[i].st = "ok") =>
             LET entries == reqs[i].data
                 g == blacklist'[1]
                 ids(group) == {group[k].id : k \in 1..Len(group)}
                 groupOf(t) == CASE t = "asin" -> g.asins
                                 [] t = "keyword" -> g.keywords
                                 [] OTHER -> g.brands
             IN  /\ \A k \in 1..Len(entries) :
                        /\ entries[k].entry_id \in ids(groupOf(entries[k].entry_type))
                        /\ Cardinality({n \in {"asins", "brands", "keywords"} :
                                           entries[k].entry_id \in ids(g[n])}) = 1
                 /\ Len(g.asins) + Len(g.brands) + Len(g.keywords) = Len(entries)]_vars

\* a load has grouped an ASIN entry and a manufacturer entry
C7_Witness ==
    /\ page = "blacklist" /\ blacklist # Null /\ ~loading
    /\ Len(blacklist[1].asins) = 1
    /\ Len(blacklist[1].brands) = 1 /\ blacklist[1].brands[1].type = "manufacturer"

\* C8: the save button of the Monitoring view sends the entered values to the
\* backend in a mutating request
C8_SaveSendsValues ==
    [][SaveSettings =>
          /\ Sent
          /\ LastSent.api # "monitor.getStatus"
          /\ LastSent.arg = <<checkInterval>>]_vars

\* C9 as stated: the status handleToggleStatus sends is the opposite of the
\* listing's current status at the backend
C9_SendsOppositeOfBackend ==
    [][(Sent /\ LastSent.by = "handleToggleStatus") =>
          /\ db[LastSent.arg[1]] \in Statuses
          /\ LastSent.arg[2] \in Statuses \ {db[LastSent.arg[1]]}]_vars

\* C9 as amended: the status handleToggleStatus sends is the opposite of the status
\* the view displays for the listing, which is the one of the last completed load
C9_SendsOppositeOfDisplayed ==
    [][(Sent /\ LastSent.by = "handleToggleStatus") =>
          /\ LastSent.api = "listings.update"
          /\ \E k \in 1..Len(listings) :
                /\ listings[k].id = LastSent.arg[1]
                /\ LastSent.arg[2] \in Statuses \ {listings[k].status}]_vars

\* a toggle in flight asks for the status the listing already has at the backend
C9_Witness ==
    \E i \in 1..Len(reqs) :
        /\ reqs[i].api = "listings.update" /\ reqs[i].st = "sent"
        /\ reqs[i].arg[2] = db[reqs[i].arg[1]]

\* C10: parsing the exported text gives one record per listing, in order, with the
\* listing's asin, title and listing_price
C10_RoundTrip ==
    [][ImportExported =>
          /\ Len(records') = Len(listings)
          /\ \A k \in 1..Len(listings) :
                /\ Field(records'[k], K_asin) = listings[k].asin
                /\ Field(records'[k], K_title) = listings[k].title
                /\ Field(records'[k], K_listing_price)
                      = NumberToString(listings[k].listing_price)]_vars

\* the collection loads of the four views
LoadHandlers == {"loadDashboardData", "loadListings", "loadMonitorStatus", "loadBlacklist"}

\* C11: once the request of a collection load has settled, resolved with success,
\* resolved without it or rejected, the view's loading flag becomes false, and a
\* mounted view with no request left is never in the loading state
C11_LoadingEnds ==
    /\ [](mounted /\ reqs = <<>> => ~loading)
    /\ \A outcome \in Outcomes :
          (\E i \in 1..Len(reqs) : reqs[i].by \in LoadHandlers /\ reqs[i].st = outcome)
             ~> ~loading

\* a Dashboard load was rejected and the view has left the loading state
C11_Witness ==
    /\ page = "dashboard" /\ mounted /\ reqs = <<>> /\ ~loading
    /\ stats = initialStats /\ \E id \in ListingIds : db[id] = "active"

\* C12: for a response with an OK status apiRequest resolves with the parsed body;
\* for any other status it rejects with an ApiError that has the HTTP status as
\* status, the parsed body as details, and as message the body's error field if
\* present, else the body's errors joined by ', ', else 'HTTP error! status: <status>'
C12_ApiRequestContract ==
    promise # Null =>
        LET r == response[1]
            p == promise[1]
        IN  IF ResponseOk(r)
            THEN p.state = "resolved" /\ p.value = Some(r.body)
            ELSE /\ p.state = "rejected" /\ p.name = "ApiError"
                 /\ p.status = Some(r.status)
                 /\ p.details = Some(r.body)
                 /\ p.message =
                       IF r.body.error # Null THEN r.body.error[1]
                       ELSE IF r.body.errors # Null
                            THEN Join(r.body.errors[1], <<COMMA, SPACE>>)
                       ELSE <<"[HTTP error! status: ]">> \o NumberToString(r.status)

\* C13: handleSearch sends the compare request only if the trimmed ASIN is exactly
\* ten characters of A-Z, 0-9; otherwise it shows a destructive toast, sends nothing
\* and leaves loading, results and error as they are
C13_SearchValidation ==
    [][handleSearch =>
          IF /\ Len(Trim(asin)) = AsinLength
             /\ \A k \in 1..Len(Trim(asin)) : IsAsinChar(Trim(asin)[k])
          THEN Sent /\ LastSent.api = "compare.us-jp" /\ LastSent.arg = Trim(asin)
          ELSE /\ toast' = "destructive"
               /\ reqs' = reqs
               /\ UNCHANGED <<loading, results, error>>]_vars

\* a search for a malformed ASIN was refused while an earlier result is on screen
C13_Witness ==
    /\ page = "research" /\ asin = <<"B", "0">> /\ toast = "destructive"
    /\ results # Null /\ error = Null /\ reqs = <<>> /\ ~loading

\* C14: in the Research view at most one compare request is in flight, the view is
\* loading exactly while it is, and no step taken while loading sends a request
C14_OneCompareInFlight ==
    /\ [](page = "research" => (Len(reqs) <= 1 /\ (loading <=> reqs # <<>>)))
    /\ [][(page = "research" /\ loading) => ~Sent]_vars

\* a compare request has been answered and its handler has not run yet: the view
\* is still loading with a valid ASIN in the input
C14_Witness ==
    /\ page = "research" /\ loading /\ IsAsinFormat(Trim(asin))
    /\ Len(reqs) = 1 /\ reqs[1].api = "compare.us-jp" /\ reqs[1].st = "ok"

\* C15: results and error are never both non-null, and both are null while loading;
\* results becomes non-null only in the step that takes an OK response with success
\* true off the await, and the step that takes an OK response with success false
\* sets error to the body's error text or to the default text and leaves results null
C15_ResultsOrError ==
    /\ [](page = "research" =>
            /\ ~(results # Null /\ error # Null)
            /\ loading => (results = Null /\ error = Null))
    /\ [][page = "research" =>
            /\ (results' # Null /\ results' # results) =>
                   /\ Len(reqs) = 1 /\ reqs[1].st = "ok" /\ reqs' = <<>>
                   /\ results' = Some(reqs[1].data)
            /\ (Len(reqs) = 1 /\ reqs[1].st = "nosuccess" /\ reqs' = <<>>) =>
                   /\ error' \in {Some(BodySearchError), Some(DefaultSearchError)}
                   /\ error' = Some(reqs[1].data)
                   /\ results' = Null]_vars

\* a search answered with success false has ended in the error state
C15_Witness ==
    /\ page = "research" /\ ~loading /\ reqs = <<>>
    /\ error = Some(BodySearchError) /\ results = Null /\ toast = "destructive"

\* C16: in the Blacklist view, while the create requests of an add action of a type
\* are in flight, that type's add button is disabled, and no second add of the type
\* is in flight
C16_AddButtonDisabled ==
    page = "blacklist" =>
        \A type \in AddTypes :
            LET adds == {i \in 1..Len(reqs) :
                            reqs[i].by = "handleAddEntries" /\ reqs[i].arg[1] = type}
            IN  /\ adds # {} => isProcessing(AddAction(type))
                /\ Cardinality(adds) <= 1

\* C17: in the Blacklist view, while a delete request for an entry is in flight, the
\* entry's delete button is disabled, and no second delete of the entry is in flight
C17_DeleteButtonDisabled ==
    page = "blacklist" =>
        \A e \in EntryIds :
            LET deletes == {i \in 1..Len(reqs) :
                               reqs[i].by = "handleDeleteEntry" /\ reqs[i].arg = <<e>>}
            IN  /\ deletes # {} => deletingId = Some(e)
                /\ Cardinality(deletes) <= 1

\* C18: in the Products view a listing id is in processingIds exactly while a toggle
\* or delete request for the listing is in flight, and no listing has two such
\* requests in flight
C18_ProcessingIdsExact ==
    page = "products" =>
        \A id \in ListingIds :
            LET mine == {i \in 1..Len(reqs) :
                            /\ reqs[i].by \in {"handleToggleStatus", "handleDelete"}
                            /\ reqs[i].arg[1] = id}
            IN  /\ id \in processingIds <=> mine # {}
                /\ Cardinality(mine) <= 1

\* the delete of one listing has settled while the toggle of the other is in flight
C18_Witness ==
    /\ page = "products" /\ processingIds = {"L2"} /\ Len(reqs) = 2
    /\ reqs[1].by = "handleToggleStatus" /\ reqs[1].st = "sent"
    /\ reqs[2].by = "loadListings" /\ db["L1"] = "absent"

\* C19: in the Products view the response of a listings fetch never overwrites the
\* response of a fetch that was issued after it: the step that takes the response of
\* a superseded fetch off its await leaves the displayed listings as they are
C19_NoStaleOverwrite ==
    [][\A i \in 1..MaxInFlight :
          (LoadListingsDone(i) /\ reqs[i].superseded) => listings' = listings]_vars

\* C20: the step in which a collection load takes a response that is rejected or
\* has no success off its await clears the loading flag and leaves the displayed
\* data and every other state of the view as they are
C20_FailedLoadKeepsData ==
    [][\A i \in 1..MaxInFlight :
          ((\/ LoadListingsDone(i) \/ LoadBlacklistDone(i)
            \/ LoadMonitorStatusDone(i) \/ LoadDashboardDataDone(i))
           /\ reqs[i].st # "ok")
          => /\ ~loading'
             /\ UNCHANGED <<listings, blacklist, monitorStatus, stats, searchTerm,
                            processingIds, addDialogOpen, creating, formData, formErrors,
                            importing, processingAction, deletingId, newAsin, newBrand,
                            newKeyword, checking, checkInterval>>]_vars

\* the refresh after a check-all run was rejected and the status card still shows
\* the status loaded before the run
C20_Witness ==
    /\ page = "monitoring" /\ ~loading /\ reqs = <<>> /\ toast = "destructive"
    /\ ~checking /\ dbMonitor = "checked" /\ monitorStatus = Some(<<"status", "never">>)

\* C21: handleAddEntries shows the success toast for N values only when each of the
\* N creates was applied at the backend: the handler goes on to the next value, and
\* after the last value to the success toast, only from a create that was applied
C21_SuccessToastCountsCreated ==
    [][\A i \in 1..MaxInFlight :
          AddEntriesStep(i) =>
             LET proceeds == \/ toast' = "default"
                             \/ \E j \in 1..Len(reqs') :
                                   /\ reqs'[j].by = "handleAddEntries"
                                   /\ reqs'[j].arg[2] = reqs[i].arg[2] + 1
             IN  /\ proceeds => reqs[i].st = "ok"
                 /\ toast' = "default" => reqs[i].arg[2] = reqs[i].arg[3]]_vars

\* C22: parseImportedData maps the columns of a CSV text by position: every
\* non-blank line after the header gives one record, and the value under the i-th
\* header is the line's i-th comma-separated cell without its surrounding quotes
\* and with doubled quotes unescaped, the empty string for an empty or missing cell
C22_PositionalColumns ==
    [][\A file \in ImportFiles :
          handleImportFile(file, TRUE) =>
             LET lines == SelectSeq(Split(Trim(file), {LF}), LAMBDA l : Trim(l) # <<>>)
                 cellsOf(line) == Split(line, {COMMA})
                 header(i) == headerMappings(Trim(StripQuotes(cellsOf(lines[1])[i])))
             IN  IF lines = <<>> THEN records' = <<>>
                 ELSE /\ Len(records') = Len(lines) - 1
                      /\ \A k \in 1..Len(records') :
                            \A i \in 1..Len(cellsOf(lines[1])) :
                               Field(records'[k], header(i)) =
                                  IF i <= Len(cellsOf(lines[k + 1]))
                                  THEN Unescape(StripQuotes(cellsOf(lines[k + 1])[i]))
                                  ELSE <<>>]_vars

====
